---- MODULE Spec2Model ----
(***************************************************************************)
(* Model of backend/app.py, the azubi-va text-to-speech Lambda handler.    *)
(*                                                                         *)
(* Strings are sequences of one-character strings, so that strip() and     *)
(* lower() are computed.  A JSON value is a record [t, v]: t is its type   *)
(* tag and v its spelling.  An exception is a record [exc, msg].           *)
(* The routing layer holds the events not yet delivered (inbox); every     *)
(* delivered event starts one invocation, whose local state is one entry   *)
(* of inv.  Invocations interleave at their outbound calls.                *)
(***************************************************************************)
EXTENDS Integers, Sequences, FiniteSets, TLC

\* ------------------------------------------------------------ bounds
\* The configured maximum text length (environment MAX_CHARS), scaled down.
MAX_CHARS == 2
\* Longest raw text the model sends: one more than the limit.
MaxTextLen == MAX_CHARS + 1
\* Number of invocations the platform runs concurrently in SpecConc.
NumInvocations == 2
\* Size of the identifier space uuid4 draws from.
MaxUuid == 3

\* ------------------------------------------------------------ constants
URL_EXPIRY_SECONDS == 3600
AUDIO_BUCKET == "AUDIO_BUCKET"
ALLOWED_ORIGIN == "*"

Mp3 == <<"m", "p", "3">>
OggVorbis == <<"o", "g", "g", "_", "v", "o", "r", "b", "i", "s">>
Pcm == <<"p", "c", "m">>
Joanna == <<"J", "o", "a", "n", "n", "a">>

\* dict keys in insertion order
SupportedKeys == <<Mp3, OggVorbis, Pcm>>

SUPPORTED_FORMATS ==
  [f \in {Mp3, OggVorbis, Pcm} |->
     IF f = Mp3 THEN <<"audio/mpeg", Mp3>>
     ELSE IF f = OggVorbis THEN <<"audio/ogg", OggVorbis>>
     ELSE <<"audio/wave", Pcm>>]

DEFAULT_VOICE == Joanna

\* ------------------------------------------------------------ strings
IsSpace(c) == c \in {" ", "\t", "\n"}

RECURSIVE LStrip(_)
LStrip(s) == IF s # <<>> /\ IsSpace(Head(s)) THEN LStrip(Tail(s)) ELSE s

RECURSIVE RStrip(_)
RStrip(s) ==
  IF s # <<>> /\ IsSpace(s[Len(s)]) THEN RStrip(SubSeq(s, 1, Len(s) - 1)) ELSE s

\* str.strip()
Strip(s) == RStrip(LStrip(s))

LowerChar(c) ==
  CASE c = "M" -> "m"
    [] c = "P" -> "p"
    [] c = "C" -> "c"
    [] c = "O" -> "o"
    [] c = "G" -> "g"
    [] c = "W" -> "w"
    [] c = "A" -> "a"
    [] c = "V" -> "v"
    [] OTHER -> c

\* str.lower()
Lower(s) == [k \in 1..Len(s) |-> LowerChar(s[k])]

Digits == <<"0", "1", "2", "3", "4", "5", "6", "7", "8", "9">>

\* str(n) for n >= 0, as used by the f-string of the length message
RECURSIVE IntToStr(_)
IntToStr(n) ==
  IF n < 10 THEN <<Digits[n + 1]>>
  ELSE IntToStr(n \div 10) \o <<Digits[(n % 10) + 1]>>

\* sep.join(parts)
RECURSIVE Join(_, _)
Join(parts, sep) ==
  IF parts = <<>> THEN <<>>
  ELSE IF Len(parts) = 1 THEN Head(parts)
  ELSE Head(parts) \o sep \o Join(Tail(parts), sep)

\* s occurs in msg as a contiguous run
Contains(msg, s) ==
  \E k \in 0..(Len(msg) - Len(s)) : SubSeq(msg, k + 1, k + Len(s)) = s

\* ------------------------------------------------------------ JSON values
Absent == [t |-> "absent", v |-> <<>>]
JStr(s) == [t |-> "str", v |-> s]
JNum(d) == [t |-> "num", v |-> <<d>>]
JBool(b) == [t |-> "bool", v |-> <<IF b THEN "true" ELSE "false">>]

\* Python truth value of what dict.get returns (None for an absent key)
Truthy(j) ==
  CASE j.t = "absent" -> FALSE
    [] j.t = "null" -> FALSE
    [] j.t = "str" -> j.v # <<>>
    [] j.t = "num" -> j.v # <<"0">>
    [] j.t = "bool" -> j.v = <<"true">>

\* x or default
OrElse(j, default) == IF Truthy(j) THEN j ELSE default

\* ------------------------------------------------------------ exceptions
NoExc == [exc |-> "none", msg |-> <<>>]
ValueError(m) == [exc |-> "ValueError", msg |-> m]
AttributeError(m) == [exc |-> "AttributeError", msg |-> m]
RuntimeError(m) == [exc |-> "RuntimeError", msg |-> m]
ClientError(m) == [exc |-> "ClientError", msg |-> m]
OtherError(m) == [exc |-> "Exception", msg |-> m]

\* ------------------------------------------------------------ inputs
Chars == {" ", "a"}

RECURSIVE SeqsUpTo(_, _)
SeqsUpTo(S, n) ==
  IF n = 0 THEN {<<>>}
  ELSE LET shorter == SeqsUpTo(S, n - 1)
       IN shorter \cup {Append(s, c) : s \in {x \in shorter : Len(x) = n - 1}, c \in S}

TextValues ==
  {Absent, JNum("0"), JNum("5")} \cup {JStr(s) : s \in SeqsUpTo(Chars, MaxTextLen)}

FormatValues ==
  {Absent, JNum("5"), JStr(<<>>), JStr(<<" ">>),
   JStr(Mp3), JStr(OggVorbis), JStr(Pcm),
   JStr(<<" ", "M", "p", "3", " ">>), JStr(<<"w", "a", "v">>)}

VoiceValues == {Absent, JStr(<<" ", "A", "m", "y", " ">>), JNum("5")}

SsmlValues == {Absent, JBool(TRUE), JBool(FALSE), JStr(<<"n", "o">>)}

Fields == [text : TextValues, format : FormatValues, voiceId : VoiceValues,
           useSsml : SsmlValues]

NoFields == [text |-> Absent, format |-> Absent, voiceId |-> Absent, useSsml |-> Absent]

\* what a body text stands for: a JSON object, another JSON value, or no JSON at all
Docs ==
  {[kind |-> "object", fields |-> f] : f \in Fields}
    \cup {[kind |-> k, fields |-> NoFields] : k \in {"array", "scalar", "garbage"}}

EmptyObject == [kind |-> "object", fields |-> NoFields]

\* event["body"]: missing/None/"" (falsy), or a text that spells doc, plainly or in base64
NoBody == [wire |-> "none", doc |-> [kind |-> "garbage", fields |-> NoFields]]
Bodies == {NoBody} \cup [wire : {"json", "b64"}, doc : Docs]

\* event["requestContext"]: missing, a mapping (whose "http" is missing or a mapping),
\* a mapping whose "http" is no mapping, or no mapping itself (null, a string, a list)
Contexts == {"absent", "mapping", "http_not_mapping", "not_mapping"}

Events == [requestContext : Contexts, isBase64Encoded : BOOLEAN, body : Bodies]

\* ------------------------------------------------------------ helpers
Headers ==
  [ContentType |-> "application/json",
   AccessControlAllowOrigin |-> ALLOWED_ORIGIN,
   AccessControlAllowHeaders |-> "*",
   AccessControlAllowMethods |-> "OPTIONS,POST"]

_json_response(code, payload) ==
  [statusCode |-> code, headers |-> Headers, body |-> payload]

GarbageDoc == [kind |-> "garbage", fields |-> NoFields]

\* base64.b64decode(raw), validate=False: the outcomes it can have.  Text that is
\* base64 decodes to the text it encodes.  Of any other text the characters outside
\* the alphabet are dropped: "{}" leaves nothing, longer JSON text leaves a run
\* that is wrongly padded (binascii.Error, a ValueError) or bytes that spell nothing.
B64Decode(raw) ==
  IF raw.wire = "b64"
  THEN {[err |-> NoExc, raw |-> [wire |-> "json", doc |-> raw.doc]]}
  ELSE {[err |-> NoExc, raw |-> [wire |-> "json", doc |-> GarbageDoc]]}
         \cup (IF raw.doc = EmptyObject THEN {}
               ELSE {[err |-> ValueError(<<"Incorrect padding">>), raw |-> raw]})

\* json.loads(raw) succeeds: raw is JSON text.  Base64 text is no JSON text.
JsonLoadsOk(raw) == raw.wire = "json" /\ raw.doc.kind # "garbage"

\* The outcomes of _parse_body: [err, body]
_parse_body(event) ==
  LET raw0 == IF event.body.wire # "none" THEN event.body
              ELSE [wire |-> "json", doc |-> EmptyObject]
      decoded == IF event.isBase64Encoded THEN B64Decode(raw0)
                 ELSE {[err |-> NoExc, raw |-> raw0]}
  IN {IF d.err # NoExc THEN [err |-> d.err, body |-> GarbageDoc]
      ELSE IF JsonLoadsOk(d.raw) THEN [err |-> NoExc, body |-> d.raw.doc]
      ELSE [err |-> ValueError(<<"Invalid JSON body">>), body |-> GarbageDoc] :
      d \in decoded}

NoInputs == [text |-> <<>>, voice_id |-> <<>>, fmt |-> <<>>, use_ssml |-> FALSE]

Failed(e) == [err |-> e, inputs |-> NoInputs]

TextRequired == <<"Field 'text' is required">>

TextTooLong(n) ==
  <<"Text too long (">> \o IntToStr(n) \o <<" chars). Limit is ">>
    \o IntToStr(MAX_CHARS) \o <<".">>

FormatMessage == <<"'format' must be one of: ">> \o Join(SupportedKeys, <<",", " ">>)

NoStrip == <<"object has no attribute 'strip'">>
NoGet == <<"object has no attribute 'get'">>

\* _read_inputs(body): [err, inputs]
_read_inputs(body) ==
  IF body.kind # "object" THEN Failed(AttributeError(NoGet))
  ELSE
    LET t == OrElse(body.fields.text, JStr(<<>>))
        text == Strip(t.v)
        f == OrElse(body.fields.format, JStr(Mp3))
        fmt == Lower(Strip(f.v))
        v == OrElse(body.fields.voiceId, JStr(DEFAULT_VOICE))
        voice_id == Strip(v.v)
        use_ssml == Truthy(body.fields.useSsml)
    IN IF t.t # "str" THEN Failed(AttributeError(NoStrip))
       ELSE IF text = <<>> THEN Failed(ValueError(TextRequired))
       ELSE IF Len(text) > MAX_CHARS THEN Failed(ValueError(TextTooLong(Len(text))))
       ELSE IF f.t # "str" THEN Failed(AttributeError(NoStrip))
       ELSE IF fmt \notin DOMAIN SUPPORTED_FORMATS THEN Failed(ValueError(FormatMessage))
       ELSE IF v.t # "str" THEN Failed(AttributeError(NoStrip))
       ELSE [err |-> NoExc,
             inputs |-> [text |-> text, voice_id |-> voice_id, fmt |-> fmt,
                         use_ssml |-> use_ssml]]

\* The except clauses of lambda_handler
ExceptResponse(e) ==
  IF e.exc = "ValueError" THEN _json_response(400, [error |-> e.msg])
  ELSE IF e.exc = "ClientError"
  THEN _json_response(500, [error |-> <<"AWS error">>, detail |-> e.msg])
  ELSE _json_response(500, [error |-> <<"Unexpected error">>, detail |-> e.msg])

\* ExceptStorage with the object of the failed request deleted again
ExceptStorageRollingBack(b, key) == {o \in b : o.Key # key}

\* What the except clauses do to the bucket when a call fails after the object was
\* written under key: nothing, they only build the response
ExceptStorage(b, key) == b

\* The log line's chain of .get calls raises AttributeError
LogRaises(event) == event.requestContext \in {"http_not_mapping", "not_mapping"}

\* ------------------------------------------------------------ collaborators
\* What polly.synthesize_speech can do: return a response with an audio stream,
\* return one without, raise a botocore error, raise anything else.
PollyOutcomes == {"stream", "no_stream", "client_error", "error"}

\* What an S3 call can do: succeed, raise a botocore error, raise anything else.
S3Outcomes == {"ok", "client_error", "error"}

Uuids == 1..MaxUuid

NoKey == [prefix |-> "", id |-> 0, ext |-> ""]
NoAudio == [VoiceId |-> <<>>, OutputFormat |-> <<>>, TextType |-> "", Text |-> <<>>]
NoResponse == [statusCode |-> 0, headers |-> Headers, body |-> [pending |-> TRUE]]

\* The exception a failed outbound call raises
CallError(outcome) ==
  IF outcome = "client_error" THEN ClientError(<<"An error occurred">>)
  ELSE OtherError(<<"failure">>)

\* _synthesize with a missing stream reported as a ValueError
_synthesize_value_error(text, voice_id, fmt, use_ssml, outcome) ==
  LET kwargs == [VoiceId |-> voice_id, OutputFormat |-> SUPPORTED_FORMATS[fmt][2],
                 TextType |-> IF use_ssml THEN "ssml" ELSE "default", Text |-> text]
  IN IF outcome = "stream" THEN [err |-> NoExc, audio |-> kwargs]
     ELSE IF outcome = "no_stream"
     THEN [err |-> ValueError(<<"Polly returned no audio stream">>), audio |-> NoAudio]
     ELSE [err |-> CallError(outcome), audio |-> NoAudio]

\* _synthesize without the check for a missing stream
_synthesize_unchecked(text, voice_id, fmt, use_ssml, outcome) ==
  LET kwargs == [VoiceId |-> voice_id, OutputFormat |-> SUPPORTED_FORMATS[fmt][2],
                 TextType |-> IF use_ssml THEN "ssml" ELSE "default", Text |-> text]
  IN IF outcome = "stream" THEN [err |-> NoExc, audio |-> kwargs]
     ELSE IF outcome = "no_stream" THEN [err |-> NoExc, audio |-> NoAudio]
     ELSE [err |-> CallError(outcome), audio |-> NoAudio]

\* _synthesize, given what polly does: [err, audio].  The audio bytes are named by
\* the arguments polly was called with.
_synthesize(text, voice_id, fmt, use_ssml, outcome) ==
  LET output_format == SUPPORTED_FORMATS[fmt][2]
      kwargs == [VoiceId |-> voice_id, OutputFormat |-> output_format,
                 TextType |-> IF use_ssml THEN "ssml" ELSE "default", Text |-> text]
  IN IF outcome = "stream" THEN [err |-> NoExc, audio |-> kwargs]
     ELSE IF outcome = "no_stream"
     THEN [err |-> RuntimeError(<<"Polly returned no audio stream">>), audio |-> NoAudio]
     ELSE [err |-> CallError(outcome), audio |-> NoAudio]

\* Ext with the format token itself as the extension
ExtIsToken(fmt) ==
  IF fmt = Mp3 THEN "mp3" ELSE (IF fmt = OggVorbis THEN "ogg_vorbis" ELSE "pcm")

\* The file extension _store_audio derives from the format
Ext(fmt) == IF fmt = Mp3 THEN "mp3" ELSE (IF fmt = OggVorbis THEN "ogg" ELSE "pcm")

\* KeyOf with a fixed name in place of the generated identifier
KeyOfFixedName(u, ext) == [prefix |-> "audio/", id |-> 0, ext |-> ext]

\* f"audio/{uuid.uuid4()}.{ext}"
KeyOf(u, ext) == [prefix |-> "audio/", id |-> u, ext |-> ext]

\* s3.put_object: the bucket holds one object per key, the last one written
put_object(b, key, data, content_type) ==
  {o \in b : o.Key # key} \cup {[Key |-> key, Body |-> data, ContentType |-> content_type]}

\* s3.generate_presigned_url
generate_presigned_url(key) ==
  [Bucket |-> AUDIO_BUCKET, Key |-> key, ExpiresIn |-> URL_EXPIRY_SECONDS]

\* ------------------------------------------------------------ state
VARIABLES
  inbox,   \* the events the routing layer has yet to deliver
  inv,     \* the invocations started so far, each with its local state
  bucket,  \* the objects in the audio bucket
  issued   \* the identifiers uuid4 has returned so far

vars == <<inbox, inv, bucket, issued>>

Local(event, pc, inputs, resp) ==
  [event |-> event, pc |-> pc, inputs |-> inputs, audio |-> NoAudio, key |-> NoKey,
   content_type |-> "", calls |-> <<>>, resp |-> resp]

Call(op, result, key) == [op |-> op, result |-> result, key |-> key]

\* lambda_handler from its first line to the first outbound call: the local states
\* it can be in then.  The log line is outside the try block.
Entry(event) ==
  IF LogRaises(event) THEN {Local(event, "raised", NoInputs, NoResponse)}
  ELSE {IF p.err # NoExc THEN Local(event, "returned", NoInputs, ExceptResponse(p.err))
        ELSE LET r == _read_inputs(p.body)
             IN IF r.err # NoExc
                THEN Local(event, "returned", NoInputs, ExceptResponse(r.err))
                ELSE Local(event, "validated", r.inputs, NoResponse) :
        p \in _parse_body(event)}

Init ==
  /\ \E e \in Events : inbox = <<e>>
  /\ inv = <<>>
  /\ bucket = {}
  /\ issued = {}

\* The platform delivers the next event: a new invocation runs up to its first call
Invoke ==
  /\ inbox # <<>>
  /\ \E l \in Entry(Head(inbox)) : inv' = Append(inv, l)
  /\ inbox' = Tail(inbox)
  /\ UNCHANGED <<bucket, issued>>

\* audio = _synthesize(text, voice_id, fmt, use_ssml)
Synthesize(i) ==
  /\ inv[i].pc = "validated"
  /\ \E outcome \in PollyOutcomes :
       LET me == inv[i]
           r == _synthesize(me.inputs.text, me.inputs.voice_id, me.inputs.fmt,
                            me.inputs.use_ssml, outcome)
           logged == Append(me.calls, Call("synthesize", outcome, NoKey))
       IN inv' = [inv EXCEPT ![i] =
                    IF r.err = NoExc
                    THEN [me EXCEPT !.pc = "synthesized", !.audio = r.audio,
                                    !.calls = logged]
                    ELSE [me EXCEPT !.pc = "returned", !.calls = logged,
                                    !.resp = ExceptResponse(r.err)]]
  /\ UNCHANGED <<inbox, bucket, issued>>

\* _store_audio up to and including s3.put_object
PutObject(i) ==
  /\ inv[i].pc = "synthesized"
  /\ \E u \in Uuids \ issued, outcome \in S3Outcomes :
       LET me == inv[i]
           key == KeyOf(u, Ext(me.inputs.fmt))
           content_type == SUPPORTED_FORMATS[me.inputs.fmt][1]
           logged == Append(me.calls, Call("put_object", outcome, key))
       IN /\ issued' = issued \cup {u}
          /\ bucket' = IF outcome = "ok"
                       THEN put_object(bucket, key, me.audio, content_type)
                       ELSE bucket
          /\ inv' = [inv EXCEPT ![i] =
                       IF outcome = "ok"
                       THEN [me EXCEPT !.pc = "stored", !.key = key,
                                       !.content_type = content_type, !.calls = logged]
                       ELSE [me EXCEPT !.pc = "returned", !.calls = logged,
                                       !.resp = ExceptResponse(CallError(outcome))]]
  /\ UNCHANGED inbox

\* s3.generate_presigned_url, the rest of _store_audio and the 200 response
GeneratePresignedUrl(i) ==
  /\ inv[i].pc = "stored"
  /\ \E outcome \in S3Outcomes :
       LET me == inv[i]
           logged == Append(me.calls, Call("generate_presigned_url", outcome, me.key))
           ok == _json_response(200,
                   [audioUrl |-> generate_presigned_url(me.key),
                    bucket |-> AUDIO_BUCKET,
                    key |-> me.key,
                    voiceId |-> me.inputs.voice_id,
                    format |-> me.inputs.fmt,
                    contentType |-> me.content_type,
                    ssml |-> me.inputs.use_ssml])
       IN /\ inv' = [inv EXCEPT ![i] =
                       [me EXCEPT !.pc = "returned", !.calls = logged,
                                  !.resp = IF outcome = "ok" THEN ok
                                           ELSE ExceptResponse(CallError(outcome))]]
          /\ bucket' = IF outcome = "ok" THEN bucket ELSE ExceptStorage(bucket, me.key)
  /\ UNCHANGED <<inbox, issued>>

Next ==
  \/ Invoke
  \/ \E i \in 1..Len(inv) : Synthesize(i)
  \/ \E i \in 1..Len(inv) : PutObject(i)
  \/ \E i \in 1..Len(inv) : GeneratePresignedUrl(i)

Spec == Init /\ [][Next]_vars

\* Requests whose bodies the platform delivers more than once: text "a" with each
\* format value, the other fields left out, the envelope as the gateway builds it.
ConcEvents ==
  {e \in Events :
     /\ e.requestContext = "mapping"
     /\ ~e.isBase64Encoded
     /\ e.body.wire = "json"
     /\ e.body.doc.kind = "object"
     /\ e.body.doc.fields.text = JStr(<<"a">>)
     /\ e.body.doc.fields.format \in {Absent, JStr(OggVorbis), JStr(<<"w", "a", "v">>)}
     /\ e.body.doc.fields.voiceId = Absent
     /\ e.body.doc.fields.useSsml = Absent}

\* NumInvocations requests with identical bodies are waiting
InitConc ==
  /\ \E e \in ConcEvents : inbox = [k \in 1..NumInvocations |-> e]
  /\ inv = <<>>
  /\ bucket = {}
  /\ issued = {}

SpecConc == InitConc /\ [][Next]_vars

\* ------------------------------------------------------------ properties
Invs == 1..Len(inv)

Returned(i) == inv[i].pc = "returned"
Finished(i) == inv[i].pc \in {"returned", "raised"}
Status(i) == inv[i].resp.statusCode

\* The event carries a JSON object as the client meant it: spelled plainly with the
\* base64 flag off, or in base64 with the flag on
ObjectBody(e) ==
  /\ e.body.wire # "none"
  /\ e.isBase64Encoded <=> (e.body.wire = "b64")
  /\ e.body.doc.kind = "object"

FieldsOf(e) == e.body.doc.fields

AllSpaces(s) == \A k \in 1..Len(s) : s[k] = " "

BlankText(j) == j = Absent \/ (j.t = "str" /\ AllSpaces(j.v))

\* The text is a string, not blank, whose trimmed length is within the limit
ValidText(j) == j.t = "str" /\ ~AllSpaces(j.v) /\ Len(Strip(j.v)) <= MAX_CHARS

Succeeded(c) == c.result = (IF c.op = "synthesize" THEN "stream" ELSE "ok")

CallOrder == <<"synthesize", "put_object", "generate_presigned_url">>

OkPuts(i) == {k \in 1..Len(inv[i].calls) :
                inv[i].calls[k].op = "put_object" /\ inv[i].calls[k].result = "ok"}

\* C1: every invocation that has ended has returned a response with status 200, 400
\* or 500; none has ended with an error raised out of the handler.
C1_NoErrorPropagates ==
  \A i \in Invs :
    Finished(i) => Returned(i) /\ Status(i) \in {200, 400, 500}

\* C2: when polly returns a response without an audio stream the handler returns
\* status 500 with the provider category "AWS error", and neither put_object nor
\* generate_presigned_url has been called.
C2_NoStreamIsProviderError ==
  \A i \in Invs :
    (\E k \in 1..Len(inv[i].calls) : inv[i].calls[k].result = "no_stream")
      => /\ Returned(i)
         /\ Status(i) = 500
         /\ inv[i].resp.body.error = <<"AWS error">>
         /\ \A k \in 1..Len(inv[i].calls) : inv[i].calls[k].op = "synthesize"

\* C3: an invocation that returned 200 wrote exactly one object; the response's key,
\* the key the URL was signed for and the object's key are the same; the key is
\* audio/<id>.<ext> with ext mp3, ogg or pcm for format mp3, ogg_vorbis or pcm; the
\* object's content type and the response's contentType are audio/mpeg, audio/ogg
\* or audio/wave for that format.
C3_SuccessNamesWrittenObject ==
  \A i \in Invs :
    Returned(i) /\ Status(i) = 200 =>
      LET r == inv[i].resp.body
          ext == CASE r.format = Mp3 -> "mp3"
                   [] r.format = OggVorbis -> "ogg"
                   [] r.format = Pcm -> "pcm"
                   [] OTHER -> "?"
          ctype == CASE r.format = Mp3 -> "audio/mpeg"
                     [] r.format = OggVorbis -> "audio/ogg"
                     [] r.format = Pcm -> "audio/wave"
                     [] OTHER -> "?"
      IN /\ Cardinality(OkPuts(i)) = 1
         /\ \A k \in OkPuts(i) : inv[i].calls[k].key = r.key
         /\ \A k \in 1..Len(inv[i].calls) :
              inv[i].calls[k].op = "generate_presigned_url" => inv[i].calls[k].key = r.key
         /\ r.audioUrl.Key = r.key
         /\ r.key.prefix = "audio/" /\ r.key.id \in Uuids /\ r.key.ext = ext
         /\ r.contentType = ctype
         /\ \E o \in bucket : o.Key = r.key /\ o.ContentType = ctype
         /\ \A o \in bucket : o.Key = r.key => o.ContentType = ctype

\* C3 witness: a 200 for format ogg_vorbis, whose extension differs from the token
C3_Witness ==
  \E i \in Invs : Returned(i) /\ Status(i) = 200 /\ inv[i].resp.body.format = OggVorbis

\* C4: when put_object succeeded and generate_presigned_url failed, the handler
\* returns 500 and the object written under the generated key is still in the
\* bucket; no call other than the three was issued.
C4_OrphanStaysAfterSignFailure ==
  \A i \in Invs :
    (/\ Returned(i)
     /\ \E k \in 1..Len(inv[i].calls) :
          inv[i].calls[k].op = "generate_presigned_url" /\ inv[i].calls[k].result # "ok")
      => /\ Status(i) = 500
         /\ \A k \in OkPuts(i) :
              \E o \in bucket : o.Key = inv[i].calls[k].key /\ o.Body = inv[i].audio
         /\ OkPuts(i) # {}
         /\ \A k \in 1..Len(inv[i].calls) :
              inv[i].calls[k].op \in {"synthesize", "put_object", "generate_presigned_url"}

\* C4 witness: put_object succeeded, signing raised a botocore error, the handler returned
C4_Witness ==
  \E i \in Invs :
    /\ Returned(i)
    /\ Len(inv[i].calls) = 3
    /\ inv[i].calls[2].result = "ok"
    /\ inv[i].calls[3].result = "client_error"
    /\ bucket # {}

\* C8: of the invocations of identical requests, any two that returned 200 wrote
\* objects under distinct keys, both objects are in the bucket, each response names
\* the key its own invocation wrote and a URL signed for it, and no key was written
\* twice.
C8_DistinctObjectsPerInvocation ==
  /\ \A i, j \in Invs :
       (i # j /\ Returned(i) /\ Returned(j) /\ Status(i) = 200 /\ Status(j) = 200)
         => /\ inv[i].resp.body.key # inv[j].resp.body.key
            /\ \A k \in OkPuts(i) : inv[i].calls[k].key = inv[i].resp.body.key
            /\ inv[i].resp.body.audioUrl.Key = inv[i].resp.body.key
            /\ \E o \in bucket : o.Key = inv[i].resp.body.key /\ o.Body = inv[i].audio
            /\ \E o \in bucket : o.Key = inv[j].resp.body.key /\ o.Body = inv[j].audio
  /\ \A i, j \in Invs : \A k \in OkPuts(i), m \in OkPuts(j) :
       inv[i].calls[k].key = inv[j].calls[m].key => i = j /\ k = m

\* C8 witness: two invocations of the same request both returned 200
C8_Witness ==
  \E i, j \in Invs :
    /\ i # j
    /\ inv[i].event = inv[j].event
    /\ Returned(i) /\ Returned(j)
    /\ Status(i) = 200 /\ Status(j) = 200

\* C9: an invocation that returned 400 has issued no outbound call, no identifier
\* was generated, and the bucket is as it was before the invocation (empty: under
\* Spec the invocation is the only one).
C9_ValidationHasNoSideEffects ==
  \A i \in Invs :
    Returned(i) /\ Status(i) = 400 =>
      inv[i].calls = <<>> /\ bucket = {} /\ issued = {}

\* C9 witness: a 400 for an unsupported format, the last of the validations
C9_Witness ==
  \E i \in Invs :
    Returned(i) /\ Status(i) = 400 /\ inv[i].resp.body.error = FormatMessage

\* C10: the calls of an invocation are a prefix of synthesize, put_object,
\* generate_presigned_url; every call but the last succeeded (synthesize with an
\* audio stream); a call that failed ended the invocation; and the invocation
\* returned 200 exactly when all three were issued and succeeded.
C10_CallsArePrefixOfPipeline ==
  \A i \in Invs :
    LET calls == inv[i].calls
    IN /\ Len(calls) <= 3
       /\ \A k \in 1..Len(calls) : calls[k].op = CallOrder[k]
       /\ \A k \in 1..(Len(calls) - 1) : Succeeded(calls[k])
       /\ (\E k \in 1..Len(calls) : ~Succeeded(calls[k])) => Returned(i) /\ Status(i) # 200
       /\ Returned(i) =>
            ((Status(i) = 200) <=>
               (Len(calls) = 3 /\ \A k \in 1..3 : Succeeded(calls[k])))

\* C10 witness: put_object failed after a synthesis that returned a stream, and the
\* invocation ended there
C10_Witness ==
  \E i \in Invs :
    /\ Returned(i)
    /\ Len(inv[i].calls) = 2
    /\ inv[i].calls[1].result = "stream"
    /\ inv[i].calls[2].result = "error"

\* C5: for every request whose JSON body has no text, or a text that is empty or all
\* spaces, the handler returns 400 with {"error": "Field 'text' is required"},
\* whatever format, voiceId and useSsml are.
C5_BlankTextIs400 ==
  \A i \in Invs :
    (Finished(i) /\ ObjectBody(inv[i].event) /\ BlankText(FieldsOf(inv[i].event).text))
      => /\ Returned(i)
         /\ Status(i) = 400
         /\ inv[i].resp.body = [error |-> <<"Field 'text' is required">>]

\* C6: when the text is valid and format carries a value that is not a supported
\* token (read after trimming and lower-casing when it is a string), every response
\* the handler returns is the 400 whose message lists mp3, ogg_vorbis, pcm; the
\* default format is never put in the value's place.
C6_UnsupportedFormatIs400 ==
  \A i \in Invs :
    LET f == FieldsOf(inv[i].event).format
        supported == f.t = "str" /\ Lower(Strip(f.v)) \in {Mp3, OggVorbis, Pcm}
    IN (/\ ObjectBody(inv[i].event)
        /\ ValidText(FieldsOf(inv[i].event).text)
        /\ f # Absent
        /\ ~supported)
         => /\ inv[i].pc # "validated"
            /\ Returned(i) =>
                 /\ Status(i) = 400
                 /\ inv[i].resp.body =
                      [error |-> <<"'format' must be one of: ">>
                                   \o Mp3 \o <<",", " ">> \o OggVorbis \o <<",", " ">> \o Pcm]

\* C7: for every request whose trimmed text is longer than MAX_CHARS the handler
\* returns 400 with a message holding the trimmed length and the limit; a text whose
\* trimmed length is exactly MAX_CHARS is not refused for its length, however long
\* the raw text.
C7_TooLongTextIs400 ==
  \A i \in Invs :
    LET t == FieldsOf(inv[i].event).text
        n == Len(Strip(t.v))
    IN (Finished(i) /\ ObjectBody(inv[i].event) /\ t.t = "str")
         => /\ n > MAX_CHARS =>
                 /\ Returned(i)
                 /\ Status(i) = 400
                 /\ Contains(inv[i].resp.body.error, IntToStr(n))
                 /\ Contains(inv[i].resp.body.error, IntToStr(MAX_CHARS))
            /\ (n = MAX_CHARS /\ Returned(i) /\ Status(i) = 400)
                 => inv[i].resp.body.error = FormatMessage

\* The log line has passed and the invocation is inside the try block.  The two
\* invariants below are what lambda_handler keeps of C5 and C7 from there on.
InsideTry(i) == ~LogRaises(inv[i].event)

BlankTextIs400InsideTry ==
  \A i \in Invs :
    (InsideTry(i) /\ ObjectBody(inv[i].event) /\ BlankText(FieldsOf(inv[i].event).text))
      => /\ Returned(i)
         /\ Status(i) = 400
         /\ inv[i].resp.body = [error |-> TextRequired]

TooLongTextIs400InsideTry ==
  \A i \in Invs :
    LET t == FieldsOf(inv[i].event).text
        n == Len(Strip(t.v))
    IN (InsideTry(i) /\ ObjectBody(inv[i].event) /\ t.t = "str" /\ n > MAX_CHARS)
         => /\ Returned(i)
            /\ Status(i) = 400
            /\ inv[i].resp.body.error = TextTooLong(n)

====
